---- MODULE Spec2Model ----
(***************************************************************************)
(* Model of src/engine.py: the EmulatorGUI controller (UI thread), the     *)
(* EmulatorCore objects it creates, the background threads that execute    *)
(* EmulatorCore.run, and the queue.Queue that carries ('log' | 'error')    *)
(* messages from the cores to the controller's check_queue poll.           *)
(*                                                                         *)
(* Cores are numbered in creation order (0 stands for None); threads are   *)
(* numbered in spawn order.  An SDL window or renderer is named by the     *)
(* number of the thread whose init_video created it; 0 is the NULL/None    *)
(* handle.                                                                 *)
(***************************************************************************)
EXTENDS Integers, Sequences, FiniteSets, TLC

\* ------------------------------------------------------------------ bounds
\* Commands of the controller that act (a load that creates a core, a start
\* that spawns a thread, a stop that writes the flag) in one behaviour.
MaxOps == 4

Cores == 1..MaxOps
Threads == 1..MaxOps

\* ------------------------------------------------ the environment's inputs
\* The file system seen by open(path, "rb"): the readable files and their
\* bytes.  Any other path makes open() raise.
Files == [empty_z64 |-> << >>, game_z64 |-> <<7, 3>>]
GoodPaths == DOMAIN Files
BadPaths == {"missing_z64"}
\* askopenfilename returns "" when the dialog is cancelled.
Cancelled == ""
Paths == {Cancelled} \cup GoodPaths \cup BadPaths
\* The paths chosen in the file dialog while emulation threads are modelled.
ChosenPaths == {Cancelled, "game_z64", "missing_z64"}

\* The values of rom_data: None, or the bytes object that f.read() returned.
None == [loaded |-> FALSE, bytes |-> << >>]
Bytes(b) == [loaded |-> TRUE, bytes |-> b]
DISABLED == "disabled"
NORMAL == "normal"

VARIABLES
    \* EmulatorGUI
    emulator_core,      \* 0 (None) or the current core
    emulator_thread,    \* 0 (None) or the thread most recently started
    start_button,       \* state of the Start button
    stop_button,        \* state of the Stop button
    log_text,           \* lines of the log view, oldest first
    queue,              \* queue.Queue shared by the GUI and every core
    ui,                 \* what the UI thread is executing: "idle" | "check_queue"
    scheduled,          \* number of pending root.after(100, check_queue) timers
    \* EmulatorCore, per core
    nCores,             \* cores constructed so far
    running,            \* self.running
    rom_data,           \* self.rom_data: None or a byte sequence
    window,             \* self.window
    renderer,           \* self.renderer
    \* background threads
    nThreads,           \* threads spawned so far
    self_core,          \* the core whose run() the thread executes
    pc,                 \* position of the thread inside run()
    \* SDL library state
    winLive,            \* windows created and not destroyed
    rendLive,           \* renderers created and not destroyed
    crashed,            \* the process died in an SDL call on a dangling handle
    \* history (read by no action's guard)
    pushed,             \* every queue.put so far: <<producer, message>>
    drained,            \* every message returned by queue.get_nowait so far
    nStops,             \* stop_emulation calls that acted
    init_result,        \* per thread: outcome of its init_video
    errors,             \* per thread: 'error' messages put by its run()
    shutdown_calls,     \* per thread: shutdown() calls made by its run()
    bad_release,        \* per thread: its shutdown destroyed a handle that was not live
    stop_requested,     \* per thread: stop_emulation acted on its core while it ran
    video_inits,        \* per core: init_video calls since its last shutdown (capped at 2)
    video_valid,        \* per core: an init_video succeeded and no shutdown followed
    quit_seen           \* per core: process_input has met an SDL_QUIT event

ctl == <<emulator_core, emulator_thread, start_button, stop_button, log_text,
         ui, scheduled>>
coreVars == <<nCores, running, rom_data, window, renderer>>
thrVars == <<nThreads, self_core, pc>>
sdlVars == <<winLive, rendLive, crashed>>
chan == <<queue, pushed, drained>>
hist == <<nStops, init_result, errors, shutdown_calls, bad_release,
          stop_requested, video_inits, video_valid, quit_seen>>
vars == <<ctl, coreVars, thrVars, sdlVars, chan, hist>>

\* Producer of a message put from the UI thread (EmulatorCore.load_rom is
\* called synchronously by EmulatorGUI.load_rom).
UIThread == 0

\* ------------------------------------------------------------ queue.Queue
PutFront(q, msg) == <<msg>> \o q
\* queue.put(msg): append at the tail; never blocks (the queue is unbounded).
Put(q, msg) == Append(q, msg)
\* queue.get_nowait(): the head; raises queue.Empty on an empty queue.
GetNowait(q) == Head(q)
Rest(q) == Tail(q)

LogMsg(path) == <<"log", path>>
ErrorMsg(text) == <<"error", text>>

\* EmulatorGUI.log: insert the line at the END of the log view.
Log(text, line) == Append(text, line)

\* check_queue's rendering of a message
Render(msg) == IF msg[1] = "log" THEN <<"[INFO]", msg[2]>>
               ELSE <<"[ERROR]", msg[2]>>

Init ==
    /\ emulator_core = 0
    /\ emulator_thread = 0
    /\ start_button = DISABLED
    /\ stop_button = DISABLED
    /\ log_text = << >>
    /\ queue = << >>
    /\ ui = "idle"
    /\ scheduled = 1
    /\ nCores = 0
    /\ running = [c \in Cores |-> FALSE]
    /\ rom_data = [c \in Cores |-> None]
    /\ window = [c \in Cores |-> 0]
    /\ renderer = [c \in Cores |-> 0]
    /\ nThreads = 0
    /\ self_core = [t \in Threads |-> 0]
    /\ pc = [t \in Threads |-> "unborn"]
    /\ winLive = {}
    /\ rendLive = {}
    /\ crashed = FALSE
    /\ pushed = << >>
    /\ drained = << >>
    /\ nStops = 0
    /\ init_result = [t \in Threads |-> "none"]
    /\ errors = [t \in Threads |-> 0]
    /\ shutdown_calls = [t \in Threads |-> 0]
    /\ bad_release = [t \in Threads |-> FALSE]
    /\ stop_requested = [t \in Threads |-> FALSE]
    /\ video_inits = [c \in Cores |-> 0]
    /\ video_valid = [c \in Cores |-> FALSE]
    /\ quit_seen = [c \in Cores |-> FALSE]

\* Commands that have acted so far.
Ops == nCores + nThreads + nStops

\* A thread that start_emulation spawned and whose run() has not returned.
Active(t) == pc[t] \notin {"unborn", "done"}
ActiveThreads == {t \in Threads : Active(t)}


\* ------------------------------------------------------------ EmulatorCore
CoreLoadRomReadsOneByte(old, path) ==
    IF path \in GoodPaths
    THEN [ok |-> TRUE,
          rom |-> Bytes(IF Files[path] = << >> THEN << >> ELSE <<Files[path][1]>>),
          msg |-> LogMsg(path)]
    ELSE [ok |-> FALSE, rom |-> old, msg |-> ErrorMsg("ROM loading failed")]

CoreLoadRomKeepsOld(old, path) ==
    IF path \in GoodPaths
    THEN [ok |-> TRUE, rom |-> old, msg |-> LogMsg(path)]
    ELSE [ok |-> FALSE, rom |-> old, msg |-> ErrorMsg("ROM loading failed")]

CoreLoadRomAlwaysTrue(old, path) ==
    IF path \in GoodPaths
    THEN [ok |-> TRUE, rom |-> Bytes(Files[path]), msg |-> LogMsg(path)]
    ELSE [ok |-> TRUE, rom |-> old, msg |-> ErrorMsg("ROM loading failed")]

\* EmulatorCore.load_rom as a function of self.rom_data and the path: what it
\* returns, the rom_data it leaves and the one message it puts.  open() or
\* read() raising leaves the assignment of line 33 unexecuted.
CoreLoadRom(old, path) ==
    IF path \in GoodPaths
    THEN [ok |-> TRUE, rom |-> Bytes(Files[path]), msg |-> LogMsg(path)]
    ELSE [ok |-> FALSE, rom |-> old, msg |-> ErrorMsg("ROM loading failed")]

ExceptResumesLoop(t, text) ==
    /\ queue' = Put(queue, ErrorMsg(text))
    /\ pushed' = Append(pushed, <<t, ErrorMsg(text)>>)
    /\ UNCHANGED drained
    /\ errors' = [errors EXCEPT ![t] = @ + 1]
    /\ pc' = [pc EXCEPT ![t] = "while"]

ExceptSkipsFinally(t, text) ==
    /\ queue' = Put(queue, ErrorMsg(text))
    /\ pushed' = Append(pushed, <<t, ErrorMsg(text)>>)
    /\ UNCHANGED drained
    /\ errors' = [errors EXCEPT ![t] = @ + 1]
    /\ pc' = [pc EXCEPT ![t] = "done"]

\* run()'s handler "except Exception as e: self.queue.put(('error', str(e)))"
\* followed by the jump to the finally clause.
Except(t, text) ==
    /\ queue' = Put(queue, ErrorMsg(text))
    /\ pushed' = Append(pushed, <<t, ErrorMsg(text)>>)
    /\ UNCHANGED drained
    /\ errors' = [errors EXCEPT ![t] = @ + 1]
    /\ pc' = [pc EXCEPT ![t] = "shutdown"]

\* run(), line 41: self.running = True
RunBegin(t) ==
    /\ ~crashed
    /\ pc[t] = "run"
    /\ running' = [running EXCEPT ![self_core[t]] = TRUE]
    /\ pc' = [pc EXCEPT ![t] = "init_video"]
    /\ UNCHANGED <<ctl, nCores, rom_data, window, renderer, nThreads, self_core,
                   sdlVars, chan, hist>>

\* The outcome init_video had, told from the handles it left.
InitOutcome(w, r) ==
    IF r # 0 THEN "ok" ELSE IF w = 0 THEN "window_failed" ELSE "renderer_failed"

\* init_video().  SDL_Init fails and RuntimeError is raised (lines 21-22), or
\* it succeeds and the results of SDL_CreateWindow and SDL_CreateRenderer are
\* stored unchecked: each is a new handle, or NULL on failure, and the
\* renderer of a NULL window is NULL.
InitVideo(t) ==
    /\ ~crashed
    /\ pc[t] = "init_video"
    /\ \/ /\ Except(t, "SDL initialization failed")
          /\ init_result' = [init_result EXCEPT ![t] = "sdl_init_failed"]
          /\ UNCHANGED <<window, renderer, winLive, rendLive, video_valid>>
       \/ \E w \in {0, t}, r \in {0, t} :
             /\ w = 0 => r = 0
             /\ window' = [window EXCEPT ![self_core[t]] = w]
             /\ renderer' = [renderer EXCEPT ![self_core[t]] = r]
             /\ winLive' = winLive \cup ({w} \ {0})
             /\ rendLive' = rendLive \cup ({r} \ {0})
             /\ init_result' = [init_result EXCEPT ![t] = InitOutcome(w, r)]
             /\ video_valid' = [video_valid EXCEPT
                                  ![self_core[t]] = @ \/ InitOutcome(w, r) = "ok"]
             /\ pc' = [pc EXCEPT ![t] = "while"]
             /\ UNCHANGED <<chan, errors>>
    /\ video_inits' = [video_inits EXCEPT ![self_core[t]] = IF @ < 2 THEN @ + 1 ELSE @]
    /\ UNCHANGED <<ctl, nCores, running, rom_data, nThreads, self_core, crashed,
                   nStops, shutdown_calls, bad_release, stop_requested, quit_seen>>

\* run(), line 44: "while self.running"
LoopCheck(t) ==
    /\ ~crashed
    /\ pc[t] = "while"
    /\ pc' = [pc EXCEPT ![t] = IF running[self_core[t]] THEN "process_input"
                               ELSE "shutdown"]
    /\ UNCHANGED <<ctl, coreVars, nThreads, self_core, sdlVars, chan, hist>>

\* execute_frame(): pass
ExecuteFrame(t) == TRUE

\* process_input() and execute_frame(), lines 46-47: the pending SDL events
\* are drained and an SDL_QUIT among them clears self.running; the SDL calls
\* may also raise.  execute_frame then does nothing.
ProcessInput(t) ==
    /\ ~crashed
    /\ pc[t] = "process_input"
    /\ \/ /\ \E quit \in BOOLEAN :
                /\ running' = IF quit THEN [running EXCEPT ![self_core[t]] = FALSE]
                              ELSE running
                /\ quit_seen' = IF quit THEN [quit_seen EXCEPT ![self_core[t]] = TRUE]
                                ELSE quit_seen
          /\ ExecuteFrame(t)
          /\ pc' = [pc EXCEPT ![t] = "render_frame"]
          /\ UNCHANGED <<chan, errors>>
       \/ /\ Except(t, "fault")
          /\ UNCHANGED <<running, quit_seen>>
    /\ UNCHANGED <<ctl, nCores, rom_data, window, renderer, nThreads, self_core,
                   sdlVars, nStops, init_result, shutdown_calls, bad_release,
                   stop_requested, video_inits, video_valid>>

\* render_frame(): SDL_RenderClear and SDL_RenderPresent on self.renderer.
\* On a NULL renderer both return an error code that is ignored; on a
\* renderer that was destroyed the process may die.  The calls may raise.
RenderFrame(t) ==
    /\ ~crashed
    /\ pc[t] = "render_frame"
    /\ LET r == renderer[self_core[t]]
       IN \/ /\ pc' = [pc EXCEPT ![t] = "while"]
             /\ UNCHANGED <<chan, errors, crashed>>
          \/ /\ r # 0 /\ r \notin rendLive
             /\ crashed' = TRUE
             /\ UNCHANGED <<chan, errors, pc>>
          \/ /\ Except(t, "fault")
             /\ UNCHANGED crashed
    /\ UNCHANGED <<ctl, coreVars, nThreads, self_core, winLive, rendLive, nStops,
                   init_result, shutdown_calls, bad_release, stop_requested,
                   video_inits, video_valid, quit_seen>>

\* shutdown(): destroy self.renderer if it is truthy, destroy self.window if
\* it is truthy, SDL_Quit().  Neither field is cleared.  Destroying a handle
\* that is no longer live is a use after free: the call returns or the
\* process dies.
Shutdown(t) ==
    /\ ~crashed
    /\ pc[t] = "shutdown"
    /\ LET c == self_core[t]
           r == renderer[c]
           w == window[c]
           dangling == (r # 0 /\ r \notin rendLive) \/ (w # 0 /\ w \notin winLive)
       IN /\ rendLive' = IF r # 0 THEN rendLive \ {r} ELSE rendLive
          /\ winLive' = IF w # 0 THEN winLive \ {w} ELSE winLive
          /\ bad_release' = [bad_release EXCEPT ![t] = dangling]
          /\ \E dies \in BOOLEAN :
                /\ dies => dangling
                /\ crashed' = dies
                /\ pc' = IF dies THEN pc ELSE [pc EXCEPT ![t] = "done"]
    /\ shutdown_calls' = [shutdown_calls EXCEPT ![t] = @ + 1]
    /\ video_inits' = [video_inits EXCEPT ![self_core[t]] = 0]
    /\ video_valid' = [video_valid EXCEPT ![self_core[t]] = FALSE]
    /\ UNCHANGED <<ctl, coreVars, nThreads, self_core, chan, nStops, init_result,
                   errors, stop_requested, quit_seen>>

\* One step of the background thread t.
ThreadStep(t) ==
    \/ RunBegin(t)
    \/ InitVideo(t)
    \/ LoopCheck(t)
    \/ ProcessInput(t)
    \/ RenderFrame(t)
    \/ Shutdown(t)

\* ------------------------------------------------------------- EmulatorGUI
\* load_rom(): path is what the file dialog returned.
LoadRom(path) ==
    /\ ~crashed
    /\ ui = "idle"
    /\ IF path = Cancelled
       THEN UNCHANGED vars
       ELSE /\ Ops < MaxOps
            /\ LET c == nCores + 1
                   res == CoreLoadRom(None, path)
               IN /\ nCores' = c
                  /\ emulator_core' = c
                  /\ running' = [running EXCEPT ![c] = FALSE]
                  /\ rom_data' = [rom_data EXCEPT ![c] = res.rom]
                  /\ window' = [window EXCEPT ![c] = 0]
                  /\ renderer' = [renderer EXCEPT ![c] = 0]
                  /\ queue' = Put(queue, res.msg)
                  /\ pushed' = Append(pushed, <<UIThread, res.msg>>)
                  /\ IF res.ok
                     THEN /\ start_button' = NORMAL
                          /\ stop_button' = DISABLED
                     ELSE UNCHANGED <<start_button, stop_button>>
            /\ UNCHANGED <<emulator_thread, log_text, ui, scheduled, thrVars,
                           sdlVars, drained, hist>>

\* start_emulation()
StartEmulation ==
    /\ ~crashed
    /\ ui = "idle"
    /\ IF emulator_core # 0
       THEN /\ Ops < MaxOps
            /\ LET t == nThreads + 1
               IN /\ nThreads' = t
                  /\ emulator_thread' = t
                  /\ self_core' = [self_core EXCEPT ![t] = emulator_core]
                  /\ pc' = [pc EXCEPT ![t] = "run"]
            /\ start_button' = DISABLED
            /\ stop_button' = NORMAL
            /\ log_text' = Log(log_text, <<"Emulation started">>)
            /\ UNCHANGED <<emulator_core, ui, scheduled, coreVars, sdlVars, chan,
                           hist>>
       ELSE UNCHANGED vars

StopEmulationLeavesStop ==
    /\ ~crashed
    /\ ui = "idle"
    /\ IF emulator_core # 0
       THEN /\ Ops < MaxOps
            /\ running' = [running EXCEPT ![emulator_core] = FALSE]
            /\ start_button' = NORMAL
            /\ UNCHANGED stop_button
            /\ log_text' = Log(log_text, <<"Emulation stopped">>)
            /\ nStops' = nStops + 1
            /\ stop_requested' =
                 [t \in Threads |-> stop_requested[t]
                                    \/ (Active(t) /\ self_core[t] = emulator_core)]
            /\ UNCHANGED <<emulator_core, emulator_thread, ui, scheduled, nCores,
                           rom_data, window, renderer, thrVars, sdlVars, chan,
                           init_result, errors, shutdown_calls,
                           bad_release, video_inits, video_valid, quit_seen>>
       ELSE UNCHANGED vars

StopEmulationAllCores ==
    /\ ~crashed
    /\ ui = "idle"
    /\ IF emulator_core # 0
       THEN /\ Ops < MaxOps
            /\ running' = [c \in Cores |-> FALSE]
            /\ start_button' = NORMAL
            /\ stop_button' = DISABLED
            /\ log_text' = Log(log_text, <<"Emulation stopped">>)
            /\ nStops' = nStops + 1
            /\ stop_requested' =
                 [t \in Threads |-> stop_requested[t]
                                    \/ (Active(t) /\ self_core[t] = emulator_core)]
            /\ UNCHANGED <<emulator_core, emulator_thread, ui, scheduled, nCores,
                           rom_data, window, renderer, thrVars, sdlVars, chan,
                           init_result, errors, shutdown_calls,
                           bad_release, video_inits, video_valid, quit_seen>>
       ELSE UNCHANGED vars

\* stop_emulation()
StopEmulation ==
    /\ ~crashed
    /\ ui = "idle"
    /\ IF emulator_core # 0
       THEN /\ Ops < MaxOps
            /\ running' = [running EXCEPT ![emulator_core] = FALSE]
            /\ start_button' = NORMAL
            /\ stop_button' = DISABLED
            /\ log_text' = Log(log_text, <<"Emulation stopped">>)
            /\ nStops' = nStops + 1
            /\ stop_requested' =
                 [t \in Threads |-> stop_requested[t]
                                    \/ (Active(t) /\ self_core[t] = emulator_core)]
            /\ UNCHANGED <<emulator_core, emulator_thread, ui, scheduled, nCores,
                           rom_data, window, renderer, thrVars, sdlVars, chan,
                           init_result, errors, shutdown_calls,
                           bad_release, video_inits, video_valid, quit_seen>>
       ELSE UNCHANGED vars

\* The timer set by root.after(100, check_queue) fires: check_queue begins.
PollTick ==
    /\ ~crashed
    /\ ui = "idle"
    /\ scheduled > 0
    /\ ui' = "check_queue"
    /\ scheduled' = scheduled - 1
    /\ UNCHANGED <<emulator_core, emulator_thread, start_button, stop_button,
                   log_text, coreVars, thrVars, sdlVars, chan, hist>>

\* check_queue, lines 140-144: get_nowait returns a message, which is logged.
CheckQueueGet ==
    /\ ~crashed
    /\ ui = "check_queue"
    /\ queue # << >>
    /\ LET msg == GetNowait(queue)
       IN /\ queue' = Rest(queue)
          /\ drained' = Append(drained, msg)
          /\ log_text' = Log(log_text, Render(msg))
    /\ UNCHANGED <<emulator_core, emulator_thread, start_button, stop_button, ui,
                   scheduled, coreVars, thrVars, sdlVars, pushed, hist>>

\* check_queue, lines 145-147: get_nowait raises queue.Empty, the loop breaks
\* and check_queue schedules itself again.
CheckQueueEmpty ==
    /\ ~crashed
    /\ ui = "check_queue"
    /\ queue = << >>
    /\ ui' = "idle"
    /\ scheduled' = scheduled + 1
    /\ UNCHANGED <<emulator_core, emulator_thread, start_button, stop_button,
                   log_text, coreVars, thrVars, sdlVars, chan, hist>>

\* The Start and Stop buttons invoke their command only while enabled; the
\* Load ROM button is always enabled.
ClickStart == start_button = NORMAL /\ StartEmulation
ClickStop == stop_button = NORMAL /\ StopEmulation

\* ----------------------------------------------------------- specifications
\* The program: the controller's operations as the window offers them, the
\* timer, and the background threads.
Next ==
    \/ \E path \in ChosenPaths : LoadRom(path)
    \/ ClickStart
    \/ ClickStop
    \/ PollTick
    \/ CheckQueueGet
    \/ CheckQueueEmpty
    \/ \E t \in Threads : ThreadStep(t)

Spec == Init /\ [][Next]_vars

\* The controller's methods called directly, in any order.
NextAPI ==
    \/ \E path \in ChosenPaths : LoadRom(path)
    \/ StartEmulation
    \/ StopEmulation
    \/ PollTick
    \/ CheckQueueGet
    \/ CheckQueueEmpty
    \/ \E t \in Threads : ThreadStep(t)

SpecAPI == Init /\ [][NextAPI]_vars

\* Threads are scheduled fairly and the Tk timer fires; the user and the
\* window system need not do anything.
Fairness ==
    /\ \A t \in Threads : WF_vars(ThreadStep(t))
    /\ WF_vars(PollTick \/ CheckQueueGet \/ CheckQueueEmpty)

FairSpec == Spec /\ Fairness

\* ------------------------------------------------------------------ claims
\* The ROM the controller's current core holds.
HeldRom == IF emulator_core = 0 THEN None ELSE rom_data[emulator_core]
NoRom == HeldRom = None
NotRunningButtons == start_button = NORMAL /\ stop_button = DISABLED
InitFailed(t) ==
    init_result[t] \in {"sdl_init_failed", "window_failed", "renderer_failed"}
Messages(h) == [i \in 1..Len(h) |-> h[i][2]]

\* C1: at most one background thread is executing run() at any time.
C1_AtMostOneRun == Cardinality(ActiveThreads) <= 1

\* C2: while a run is active and no stop() was issued to it, no step spawns
\* another thread.
C2_StartRefusesWhileActive ==
    [][(\E t \in Threads : Active(t) /\ ~stop_requested[t])
         => nThreads' = nThreads]_vars

\* C3: once stop() has been invoked on the core of an active run, that run
\* comes to execute shutdown (or the process has died).
C3_StopLeadsToShutdown ==
    \A t \in Threads : stop_requested[t] ~> (shutdown_calls[t] > 0 \/ crashed)

\* C4: start() with no ROM held spawns no thread and leaves both buttons.
C4_StartWithoutRomIsNoop ==
    [][(StartEmulation /\ NoRom)
         => UNCHANGED <<nThreads, pc, start_button, stop_button>>]_vars

\* C5: stop() with no run active leaves the run flags, both buttons and the
\* log as they were.
C5_StopWithoutLoopIsNoop ==
    [][(StopEmulation /\ ActiveThreads = {})
         => UNCHANGED <<running, start_button, stop_button, log_text>>]_vars

\* C6: a load_rom on an unreadable path puts exactly one error message and
\* the controller's core holds the same ROM after it as before.
C6_FailedLoadKeepsRom ==
    [][\A path \in BadPaths :
         LoadRom(path)
           => /\ HeldRom' = HeldRom
              /\ Len(pushed') = Len(pushed) + 1
              /\ pushed'[Len(pushed')][2][1] = "error"]_vars

\* C7: a thread whose run() has returned has called shutdown exactly once,
\* whichever way it left the try block.
C7_RunEndsWithShutdown ==
    \A t \in Threads : pc[t] = "done" => shutdown_calls[t] = 1

C7_Witness ==
    \E t1, t2 \in Threads :
       /\ pc[t1] = "done" /\ init_result[t1] = "sdl_init_failed"
       /\ pc[t2] = "done" /\ init_result[t2] = "ok" /\ errors[t2] = 1
       /\ shutdown_calls[t1] = 1 /\ shutdown_calls[t2] = 1

\* C8: a run whose init_video failed never executes the loop body, and once
\* it has returned it has put exactly one error message and its shutdown has
\* destroyed no handle that was not live.
C8_InitFailureSkipsLoop ==
    \A t \in Threads :
       InitFailed(t)
         => /\ pc[t] \notin {"process_input", "render_frame"}
            /\ pc[t] = "done" => (errors[t] = 1 /\ ~bad_release[t])

\* C9: the messages returned by get_nowait so far, followed by those still
\* queued, are the messages put so far, in the order they were put.
C9_ChannelFifoLossless == drained \o queue = Messages(pushed)

C9_Witness ==
    /\ ui = "check_queue"
    /\ Len(drained) >= 1
    /\ Len(queue) >= 2
    /\ \E i, j \in 1..Len(pushed) :
          /\ pushed[i][1] = UIThread /\ pushed[j][1] # UIThread
          /\ i > Len(drained) + 1 /\ j > Len(drained)

\* C10: when the run started last has returned without a stop() issued to it
\* (init_video failed, the loop faulted or a quit event ended it), no run is
\* active and the controller has handled every message, Start is enabled and
\* Stop is disabled.
C10_ButtonsResetAfterRunEnds ==
    ( /\ nThreads > 0
      /\ ActiveThreads = {}
      /\ ~stop_requested[nThreads]
      /\ queue = << >> /\ ui = "idle" )
      => NotRunningButtons

\* C11: no shutdown destroys a renderer or window that is not live (one that
\* an earlier shutdown on the same core already destroyed): every handle is
\* destroyed at most once.
C11_NoDoubleDestroy == \A t \in Threads : ~bad_release[t]

\* The program with every file of the file system on offer in the dialog, and
\* Start used once: the ROM contents vary, around a single emulation run.
NextRom ==
    \/ \E path \in Paths : LoadRom(path)
    \/ (nThreads = 0 /\ ClickStart)
    \/ ClickStop
    \/ PollTick
    \/ CheckQueueGet
    \/ CheckQueueEmpty
    \/ \E t \in Threads : ThreadStep(t)

SpecRom == Init /\ [][NextRom]_vars

\* The messages put by the UI thread: the c-th is the one EmulatorCore.load_rom
\* put when core c was created and loaded.
FromUI(e) == e[1] = UIThread
UIMessages == SelectSeq(pushed, FromUI)
LoadMsg(c) == UIMessages[c][2]
LoadSucceeded(c) == LoadMsg(c)[1] = "log"
LoadedPath(c) == LoadMsg(c)[2]

\* C12: a load_rom of a readable file leaves the controller's core holding
\* exactly the bytes of the file, puts exactly one message, which is the 'log'
\* message naming the file, and leaves Start enabled and Stop disabled.
C12_SuccessfulLoad ==
    [][\A path \in GoodPaths :
         LoadRom(path)
           => /\ HeldRom' = Bytes(Files[path])
              /\ Len(pushed') = Len(pushed) + 1
              /\ pushed'[Len(pushed')] = <<UIThread, LogMsg(path)>>
              /\ start_button' = NORMAL
              /\ stop_button' = DISABLED]_vars

C12_Witness ==
    /\ emulator_core >= 2
    /\ rom_data[emulator_core] = Bytes(Files["game_z64"])
    /\ \E c \in 1..(emulator_core - 1) : rom_data[c] = Bytes(Files["empty_z64"])
    /\ pushed[Len(pushed)] = <<UIThread, LogMsg("game_z64")>>
    /\ NotRunningButtons
    /\ nThreads = 1

\* C13 as stated: whenever the load on the current core succeeded, the ROM
\* image the core holds is non-empty.
C13_LoadedRomNonEmpty ==
    (emulator_core # 0 /\ LoadSucceeded(emulator_core))
      => HeldRom.bytes # << >>

\* C13 as amended: whenever the load on the current core succeeded, the core
\* holds a ROM image (rom_data is not None), and the image is empty exactly
\* when the file that was read is empty.
C13_LoadedRomMatchesFile ==
    (emulator_core # 0 /\ LoadSucceeded(emulator_core))
      => /\ HeldRom # None
         /\ HeldRom.loaded
         /\ (HeldRom.bytes = << >>) <=> (Files[LoadedPath(emulator_core)] = << >>)

C13_Witness ==
    /\ emulator_core # 0
    /\ LoadSucceeded(emulator_core)
    /\ LoadedPath(emulator_core) = "empty_z64"
    /\ HeldRom = Bytes(<< >>)

\* C14: a thread is inside render_frame on a core only while an init_video on
\* that core has succeeded and no shutdown of that core has happened since.
C14_RenderOnlyWhileVideoValid ==
    \A t \in Threads : pc[t] = "render_frame" => video_valid[self_core[t]]

\* C15: between two shutdowns of a core init_video is invoked on it at most
\* once.
C15_OneInitPerShutdown == \A c \in Cores : video_inits[c] <= 1

\* C16: a run that has put an error message has put exactly one, has left the
\* loop for good (it is in shutdown or has returned), and has called shutdown
\* exactly once by the time it returns.
C16_FaultEndsRun ==
    \A t \in Threads :
       errors[t] >= 1
         => /\ errors[t] = 1
            /\ pc[t] \in {"shutdown", "done"}
            /\ pc[t] = "done" => shutdown_calls[t] = 1

C16_Witness ==
    \E t \in Threads :
       /\ init_result[t] = "ok"
       /\ errors[t] = 1
       /\ pushed[Len(pushed)] = <<t, ErrorMsg("fault")>>
       /\ pc[t] = "done"
       /\ shutdown_calls[t] = 1

\* C17: every event put on the channel is eventually taken off it by the poll
\* (the n-th event put is eventually the n-th event drained).
C17_EveryEventDrained ==
    \A n \in 1..MaxOps : (Len(pushed) >= n) ~> (Len(drained) >= n)

\* C18: a load_rom of the controller that fails leaves both buttons as they
\* were, and one that succeeds enables Start and disables Stop, in whatever
\* state it is invoked (runs active or not).
C18_LoadRomAffordances ==
    [][\A path \in Paths \ {Cancelled} :
          LoadRom(path)
            => IF path \in GoodPaths
               THEN start_button' = NORMAL /\ stop_button' = DISABLED
               ELSE UNCHANGED <<start_button, stop_button>>]_vars

C18_Witness ==
    /\ emulator_core # 0
    /\ ~LoadSucceeded(emulator_core)
    /\ pushed[Len(pushed)] = <<UIThread, ErrorMsg("ROM loading failed")>>
    /\ \E t \in Threads : Active(t) /\ self_core[t] # emulator_core
    /\ start_button = DISABLED
    /\ stop_button = NORMAL

\* The controller has had a load_rom succeed.
SomeLoadSucceeded == \E i \in 1..Len(UIMessages) : UIMessages[i][2][1] = "log"

\* C19: Start and Stop are never both enabled, and they are both disabled
\* only while no load_rom has succeeded yet.
C19_ButtonsExclusive ==
    /\ ~(start_button = NORMAL /\ stop_button = NORMAL)
    /\ (start_button = DISABLED /\ stop_button = DISABLED) => ~SomeLoadSucceeded

C19_Witness ==
    /\ SomeLoadSucceeded
    /\ nThreads >= 1
    /\ nStops >= 1
    /\ emulator_core >= 2
    /\ start_button = NORMAL
    /\ stop_button = DISABLED

\* Thread t is inside the loop of run(), lines 44-48.
InLoop(t) == pc[t] \in {"while", "process_input", "render_frame"}

\* The core of thread t is no longer the controller's core.
Replaced(t) == Active(t) /\ self_core[t] # emulator_core

\* A step of the controller: load_rom, start_emulation or stop_emulation.
ControllerStep ==
    \/ \E path \in Paths : LoadRom(path)
    \/ StartEmulation
    \/ StopEmulation

\* A step in which thread t leaves the loop of run().
LoopEnds(t) == InLoop(t) /\ pc'[t] = "shutdown"

\* C20 as stated: a controller step writes the run flag of no core but the
\* controller's current one, and the loop of a run whose core has been
\* replaced ends only through a quit event or a fault.
C20_ReplacedLoopEndsByQuitOrFault ==
    [][/\ ControllerStep
          => \A c \in Cores \ {emulator_core'} : running'[c] = running[c]
       /\ \A t \in Threads :
             (Replaced(t) /\ LoopEnds(t))
               => \/ errors'[t] > errors[t]
                  \/ quit_seen'[self_core[t]]]_vars

\* C20 amended: as above, but the loop of a replaced core also ends through
\* a stop that was issued on that core before the replacement and that the
\* loop had not yet observed.
C20_ReplacedLoopEndsByQuitFaultOrEarlierStop ==
    [][/\ ControllerStep
          => \A c \in Cores \ {emulator_core'} : running'[c] = running[c]
       /\ \A t \in Threads :
             (Replaced(t) /\ LoopEnds(t))
               => \/ errors'[t] > errors[t]
                  \/ quit_seen'[self_core[t]]
                  \/ stop_requested[t]]_vars

C20_Witness ==
    \E t \in Threads :
       /\ Replaced(t)
       /\ InLoop(t)
       /\ running[self_core[t]]
       /\ ~stop_requested[t]
       /\ nStops >= 1
       /\ ~running[emulator_core]

====
